---- MODULE Spec2Model ----
(***************************************************************************)
(* SimpleSocialGridWorld (src/src/environment/social_gridworld.py) as a    *)
(* state machine: the environment object's fields, the value returned by   *)
(* the last call, and one action per public operation (reset, step).       *)
(* ArousalMonitor and ArousalIntegrator (src/src/utils/arousal.py) follow  *)
(* further down, each with a specification of its own; a specification     *)
(* holds the variables of the other components at fixed values.            *)
(*                                                                         *)
(* Rewards and error magnitudes are floats in the source.  Every value the *)
(* code forms is a sum of terms out of -0.1, -5.0, +1.0, +0.0, -0.5, -1.0  *)
(* and +10.0, taken in that order, and each such sum is the double nearest *)
(* to the decimal result (-0.1 - 5.0 is the double -5.1, -0.1 - 1.0 + 10.0 *)
(* is the double 8.9, ...).  The model therefore counts rewards and errors *)
(* in tenths: -1 is -0.1, -51 is -5.1, 50 is 5.0.                          *)
(***************************************************************************)
EXTENDS Integers, Sequences, FiniteSets

VARIABLES
    size,               \* self.size
    npc_pos,            \* self.npc_pos
    goal_pos,           \* self.goal_pos
    mood_change_freq,   \* self.mood_change_freq
    max_steps,          \* self.max_steps
    episode_count,      \* self.episode_count
    current_mood,       \* self.current_mood
    state,              \* self.state: NoState (None) or a GridState
    total_rewards,      \* self.total_rewards
    result,             \* outcome of the last call made on the environment
    calls,              \* number of calls made on the environment so far
    pc,                 \* where reset() stands: "idle" or in its "sampling" loop
    trial               \* locals of test_optimal_policy_exists driving the environment

VARIABLES
    base,               \* ArousalMonitor.base
    surprise_sens,      \* ArousalMonitor.surprise_sens
    salience_sens,      \* ArousalMonitor.salience_sens
    stress_thresh,      \* ArousalMonitor.stress_thresh
    time_sens,          \* ArousalMonitor.time_sens
    current_arousal,    \* ArousalMonitor.current_arousal
    arousal_history,    \* ArousalMonitor.arousal_history
    surprise_component, \* ArousalMonitor.surprise_component
    salience_component, \* ArousalMonitor.salience_component
    stress_component,   \* ArousalMonitor.stress_component
    monitor_result,     \* outcome of the last call made on the monitor
    compute_calls,      \* number of compute_arousal calls made on the monitor
    integration         \* last call of an ArousalIntegrator method, with its result

env_vars == <<size, npc_pos, goal_pos, mood_change_freq, max_steps,
              episode_count, current_mood, state, total_rewards, result, calls>>

monitor_config == <<base, surprise_sens, salience_sens, stress_thresh, time_sens>>

histories == <<arousal_history, surprise_component, salience_component,
               stress_component>>

monitor_vars == <<monitor_config, current_arousal, histories, monitor_result,
                  compute_calls>>

vars == <<env_vars, pc, trial, monitor_vars, integration>>

config == <<size, npc_pos, goal_pos, mood_change_freq, max_steps>>

----------------------------------------------------------------------------
(* Bounds of the model *)

\* the grid explored is GridSize x GridSize
GridSize == 2
\* mood_change_frequency values explored: 1 .. MaxFreq
MaxFreq == 2
\* max_steps values explored: ShortEpisode and the constructor's default
ShortEpisode == 2
\* at most MaxCalls calls of reset() and step() are made on an environment
MaxCalls == 4

\* lines 100-104: defaults of the constructor's parameters
default_size == 5

default_npc_pos == <<2, 2>>

default_goal_pos == <<4, 4>>

default_mood_change_frequency == 75

default_max_steps == 50

----------------------------------------------------------------------------
(* Enumerations and value types *)

Action == {"UP", "DOWN", "LEFT", "RIGHT", "INTERACT"}

NPCMood == {"FRIENDLY", "NEUTRAL", "HOSTILE"}

\* Python's None, as the value of npc_mood_estimate
None == "None"

\* Python's None, as the value of self.state
NoState == [kind |-> "None"]

GridState(agent, goal, npc, actual, estimate, count, nsteps) ==
    [agent_pos |-> agent, goal_pos |-> goal, npc_pos |-> npc,
     npc_mood_actual |-> actual, npc_mood_estimate |-> estimate,
     interaction_count |-> count, steps |-> nsteps]

Transition(s, a, r, ns, d, i) ==
    [state |-> s, action |-> a, reward |-> r, next_state |-> ns,
     done |-> d, info |-> i]

Abs(n) == IF n < 0 THEN -n ELSE n

\* the cells rng.integers(0, size) x rng.integers(0, size) can draw
Cells(n) == (0 .. n - 1) \X (0 .. n - 1)

----------------------------------------------------------------------------
(* Helpers of the environment *)

action_to_delta(action) ==
    CASE action = "UP"    -> <<0, -1>>
      [] action = "DOWN"  -> <<0, 1>>
      [] action = "LEFT"  -> <<-1, 0>>
      [] action = "RIGHT" -> <<1, 0>>
      [] OTHER            -> <<0, 0>>

\* off-by-one bound check
is_valid_position_off_by_one(pos) ==
    /\ 0 <= pos[1] /\ pos[1] <= size
    /\ 0 <= pos[2] /\ pos[2] <= size

is_valid_position(pos) ==
    /\ 0 <= pos[1] /\ pos[1] < size
    /\ 0 <= pos[2] /\ pos[2] < size

\* the NPC's own cell counts as adjacent
is_adjacent_to_npc_or_on_it(pos) ==
    Abs(pos[1] - npc_pos[1]) + Abs(pos[2] - npc_pos[2]) <= 1

is_adjacent_to_npc(pos) ==
    Abs(pos[1] - npc_pos[1]) + Abs(pos[2] - npc_pos[2]) = 1

\* hostile penalty of 0.5 instead of 5.0
mood_reward_weak_hostile(mood) ==
    CASE mood = "HOSTILE"  -> -5
      [] mood = "FRIENDLY" -> 10
      [] mood = "NEUTRAL"  -> 0

\* lines 212-218: the reward term of an adjacent INTERACT, in tenths
mood_reward(mood) ==
    CASE mood = "HOSTILE"  -> -50
      [] mood = "FRIENDLY" -> 10
      [] mood = "NEUTRAL"  -> 0

\* agent_error set for every mood
mood_agent_error_any_mood(mood) == 50

\* line 214: info["agent_error"] after an adjacent INTERACT, in tenths
mood_agent_error(mood) == IF mood = "HOSTILE" THEN 50 ELSE 0

\* the cutoff comes one interaction later
hostile_cutoff_at_four(new_interaction_count, mood) ==
    new_interaction_count >= 4 /\ mood = "HOSTILE"

\* the cutoff applies whatever the mood
hostile_cutoff_any_mood(new_interaction_count, mood) == new_interaction_count >= 3

\* line 224: three hostile interactions end the episode
hostile_cutoff(new_interaction_count, mood) ==
    new_interaction_count >= 3 /\ mood = "HOSTILE"

\* lines 235-239: the cell a movement action aims at
candidate_position(pos, action) ==
    <<pos[1] + action_to_delta(action)[1], pos[2] + action_to_delta(action)[2]>>

\* line 242: the move leaves the grid
wall_collision(pos, action) == ~is_valid_position(candidate_position(pos, action))

\* the move is applied without the wall check
move_position_unchecked(pos, action) == candidate_position(pos, action)

\* lines 236-244: new_pos of a movement action
move_position(pos, action) ==
    IF wall_collision(pos, action) THEN pos ELSE candidate_position(pos, action)

\* a collision penalty of 1.1 instead of 1.0
collision_penalty_eleven(pos, action) == IF wall_collision(pos, action) THEN 11 ELSE 0

\* lines 243, 245: reward term and info["state_error"] of a wall collision, in tenths
collision_penalty(pos, action) == IF wall_collision(pos, action) THEN 10 ELSE 0

\* the goal check looks at the post-move position only
goal_reached_after_move_only(next_pos, new_pos) == new_pos = goal_pos

\* line 251: goal check on the pre-move and the post-move position
goal_reached(next_pos, new_pos) == next_pos = goal_pos \/ new_pos = goal_pos

\* no step cost is charged
step_cost_absent == 1 - 1

\* line 197: the cost of every step, in tenths
step_cost == 1

\* a goal bonus of 5.0 instead of 10.0
goal_reward_halved == 100 \div 2

\* line 252: the bonus for reaching the goal, in tenths
goal_reward == 100

\* the timeout fires one step late
timed_out_one_late(new_steps) == new_steps > max_steps

\* line 257: timeout check
timed_out(new_steps) == new_steps >= max_steps

\* goal and NPC positions passed in each other's place
next_grid_state_swapped(s, new_pos, new_mood_estimate, new_interaction_count, new_steps) ==
    GridState(new_pos, s.npc_pos, s.goal_pos, s.npc_mood_actual,
              new_mood_estimate, new_interaction_count, new_steps)

\* lines 261-269: next_state copies goal, NPC and actual mood from self.state
next_grid_state(s, new_pos, new_mood_estimate, new_interaction_count, new_steps) ==
    GridState(new_pos, s.goal_pos, s.npc_pos, s.npc_mood_actual,
              new_mood_estimate, new_interaction_count, new_steps)

\* a step that does not query the NPC forgets the estimate
updated_mood_estimate_forgetting(s, queried) ==
    IF queried THEN s.npc_mood_actual ELSE None

\* lines 209, 228, 247: the estimate is the actual mood after an adjacent
\* INTERACT and is copied in every other step
updated_mood_estimate(s, queried) ==
    IF queried THEN s.npc_mood_actual ELSE s.npc_mood_estimate

\* lines 189-278: the transition step(action) builds from self.state = s
StepTransition(s, action) ==
    LET interact == action = "INTERACT"
        adjacent == is_adjacent_to_npc(s.agent_pos)
        mood     == s.npc_mood_actual
        next_pos == s.agent_pos
        new_pos  == IF interact THEN s.agent_pos
                    ELSE move_position(s.agent_pos, action)
        new_mood_estimate == updated_mood_estimate(s, interact /\ adjacent)
        new_interaction_count ==
            IF interact /\ adjacent THEN s.interaction_count + 1
            ELSE s.interaction_count
        state_error ==
            IF interact THEN (IF adjacent THEN 0 ELSE 5)
            ELSE collision_penalty(s.agent_pos, action)
        agent_error ==
            IF interact /\ adjacent THEN mood_agent_error(mood) ELSE 0
        action_reward ==
            IF interact THEN (IF adjacent THEN mood_reward(mood) ELSE -5)
            ELSE 0 - collision_penalty(s.agent_pos, action)
        at_goal   == goal_reached(next_pos, new_pos)
        reward    == (0 - step_cost) + action_reward + (IF at_goal THEN goal_reward ELSE 0)
        new_steps == s.steps + 1
        done      == \/ interact /\ adjacent /\ hostile_cutoff(new_interaction_count, mood)
                     \/ at_goal
                     \/ timed_out(new_steps)
        next_state == next_grid_state(s, new_pos, new_mood_estimate,
                                      new_interaction_count, new_steps)
    IN  Transition(s, action, reward, next_state, done,
                   [state_error |-> state_error, agent_error |-> agent_error])

----------------------------------------------------------------------------
(* reset() *)

\* line 147: the incremented episode counter is a multiple of the frequency
mood_change_due(count) == count % mood_change_freq = 0

\* the current mood is not removed from the candidates
update_npc_mood_keeping_current(mood) == NPCMood

\* lines 295-300: the moods _update_npc_mood can select
update_npc_mood(mood) == NPCMood \ {mood}

\* the sampling loop rejects the goal only
start_positions_ignoring_npc == {p \in Cells(size) : p # goal_pos}

\* lines 151-157: the positions the sampling loop can leave with
start_positions == {p \in Cells(size) : p # goal_pos /\ p # npc_pos}

\* the fresh state already carries the mood as the estimate
initial_state_knowing_mood(agent_pos, mood) ==
    GridState(agent_pos, goal_pos, npc_pos, mood, mood, 0, 0)

\* lines 159-167: the state reset() installs
initial_state(agent_pos, mood) ==
    GridState(agent_pos, goal_pos, npc_pos, mood, None, 0, 0)

\* lines 144-169, for a configuration the sampling loop can leave
reset ==
    /\ calls' = calls + 1
    /\ episode_count' = episode_count + 1
    /\ IF mood_change_due(episode_count')
       THEN current_mood' \in update_npc_mood(current_mood)
       ELSE current_mood' = current_mood
    /\ \E agent_pos \in start_positions :
          state' = initial_state(agent_pos, current_mood')
    /\ result' = [op |-> "reset", raised |-> None, value |-> state']
    /\ UNCHANGED <<config, total_rewards>>

----------------------------------------------------------------------------
(* step(action) *)

\* step() before reset() returns silently instead of raising
step_before_reset_silent ==
    /\ result' = [op |-> "step", raised |-> None, value |-> NoState]
    /\ UNCHANGED <<state, total_rewards>>

\* lines 186-187: step() before reset() raises and touches nothing
step_before_reset ==
    /\ result' = [op |-> "step", raised |-> "RuntimeError", value |-> NoState]
    /\ UNCHANGED <<state, total_rewards>>

\* every step's reward is recorded
record_reward_of_every_step(rewards, transition) == Append(rewards, transition.reward)

\* lines 282-283: the reward of a step that ends the episode is recorded
record_reward(rewards, transition) ==
    IF transition.done THEN Append(rewards, transition.reward) ELSE rewards

\* lines 186-285
step(action) ==
    /\ calls' = calls + 1
    /\ UNCHANGED <<config, episode_count, current_mood>>
    /\ IF state = NoState
       THEN step_before_reset
       ELSE LET transition == StepTransition(state, action)
            IN  /\ state' = transition.next_state
                /\ total_rewards' = record_reward(total_rewards, transition)
                /\ result' = [op |-> "step", raised |-> None, value |-> transition]

----------------------------------------------------------------------------
(* The environment after construction, lines 118-134 *)

constructed ==
    /\ episode_count = 0
    /\ current_mood = "NEUTRAL"
    /\ state = NoState
    /\ total_rewards = <<>>
    /\ result = [op |-> "init", raised |-> None, value |-> NoState]
    /\ calls = 0

\* the variables of the components a specification leaves aside
NoTrial == [pc |-> "none"]

NoMonitor ==
    /\ base = 0 /\ surprise_sens = 0 /\ salience_sens = 0
    /\ stress_thresh = 0 /\ time_sens = 0
    /\ current_arousal = 0
    /\ arousal_history = <<>> /\ surprise_component = <<>>
    /\ salience_component = <<>> /\ stress_component = <<>>
    /\ monitor_result = [op |-> "none"]
    /\ compute_calls = 0

NoIntegration == [op |-> "none"]

NoEnvironment ==
    /\ size = 0 /\ npc_pos = <<0, 0>> /\ goal_pos = <<0, 0>>
    /\ mood_change_freq = 0 /\ max_steps = 0
    /\ constructed
    /\ pc = "idle"
    /\ trial = NoTrial

Init ==
    /\ size = GridSize
    /\ npc_pos = <<size \div 2, size \div 2>>
    /\ goal_pos \in Cells(size)
    /\ mood_change_freq \in 1 .. MaxFreq
    /\ max_steps \in {ShortEpisode, default_max_steps}
    /\ constructed
    /\ pc = "idle"
    /\ trial = NoTrial
    /\ NoMonitor
    /\ integration = NoIntegration

\* a caller that makes up to MaxCalls calls, in any order
call_reset ==
    /\ calls < MaxCalls
    /\ reset
    /\ UNCHANGED <<pc, trial, monitor_vars, integration>>

call_step ==
    /\ calls < MaxCalls
    /\ \E action \in Action : step(action)
    /\ UNCHANGED <<pc, trial, monitor_vars, integration>>

Next ==
    \/ call_reset
    \/ call_step

Spec == Init /\ [][Next]_vars

\* a caller that stops stepping once step() has returned done = true and
\* goes on with reset()
driver_step ==
    /\ ~(result.op = "step" /\ result.raised = None /\ result.value.done)
    /\ call_step

NextDriver ==
    \/ call_reset
    \/ driver_step

SpecDriver == Init /\ [][NextDriver]_vars

----------------------------------------------------------------------------
(* reset() step by step, for any configuration the constructor stores:     *)
(* the constructor validates nothing (lines 118-122), so the frequency may *)
(* be 0 and the goal or the NPC may fill a 1 x 1 grid or lie outside it    *)

\* the sampling loop also keeps away from the cells next to the NPC
start_position_ok_away_from_npc(agent_pos) ==
    agent_pos # goal_pos /\ agent_pos # npc_pos /\ ~is_adjacent_to_npc(agent_pos)

\* lines 156-157: the condition that leaves the sampling loop
start_position_ok(agent_pos) == agent_pos # goal_pos /\ agent_pos # npc_pos

\* lines 144-148: the counter, then the modulo, which raises
\* ZeroDivisionError for a frequency of 0, then the mood
reset_enter ==
    /\ pc = "idle"
    /\ calls < MaxCalls
    /\ calls' = calls + 1
    /\ episode_count' = episode_count + 1
    /\ IF mood_change_freq = 0
       THEN /\ result' = [op |-> "reset", raised |-> "ZeroDivisionError",
                          value |-> NoState]
            /\ UNCHANGED <<current_mood, pc>>
       ELSE /\ IF mood_change_due(episode_count')
               THEN current_mood' \in update_npc_mood(current_mood)
               ELSE current_mood' = current_mood
            /\ pc' = "sampling"
            /\ UNCHANGED result
    /\ UNCHANGED <<config, state, total_rewards, trial, monitor_vars, integration>>

\* lines 152-157, 159-169: a draw that leaves the loop; reset() returns
sample_accepted ==
    /\ pc = "sampling"
    /\ \E agent_pos \in Cells(size) :
          /\ start_position_ok(agent_pos)
          /\ state' = initial_state(agent_pos, current_mood)
    /\ result' = [op |-> "reset", raised |-> None, value |-> state']
    /\ pc' = "idle"
    /\ UNCHANGED <<config, episode_count, current_mood, total_rewards, calls,
                   trial, monitor_vars, integration>>

\* lines 152-157: a draw of the goal's or the NPC's cell; the loop goes on
sample_rejected ==
    /\ pc = "sampling"
    /\ \E agent_pos \in Cells(size) : ~start_position_ok(agent_pos)
    /\ UNCHANGED vars

\* step() is called between two calls of reset()
step_between_resets ==
    /\ pc = "idle"
    /\ call_step

InitReset ==
    /\ size \in 1 .. GridSize
    /\ npc_pos \in {<<size \div 2, size \div 2>>, default_npc_pos}
    /\ goal_pos \in {<<0, 0>>, <<size - 1, size - 1>>, default_goal_pos}
    /\ mood_change_freq \in 0 .. MaxFreq
    /\ max_steps = default_max_steps
    /\ constructed
    /\ pc = "idle"
    /\ trial = NoTrial
    /\ NoMonitor
    /\ integration = NoIntegration

NextReset ==
    \/ reset_enter
    \/ sample_accepted
    \/ sample_rejected
    \/ step_between_resets

\* the draws are fair: a cell that leaves the loop, when there is one, is
\* drawn sooner or later
SpecReset == InitReset /\ [][NextReset]_vars /\ WF_vars(sample_accepted)

----------------------------------------------------------------------------
(* test_optimal_policy_exists (src/tests/test_environment.py): an          *)
(* environment with the constructor's defaults, driven for up to ten       *)
(* trials by the test's heuristic                                          *)

\* line 130: for trial in range(10)
trials == 10

\* line 136: while steps < 50
trial_step_limit == 50

\* line 174: if total_reward > 5, in tenths
success_reward == 50

\* lines 138-139
dist_to_npc(s) ==
    Abs(s.agent_pos[1] - s.npc_pos[1]) + Abs(s.agent_pos[2] - s.npc_pos[2])

\* lines 141-163: the action the heuristic picks in state s
heuristic_action(s) ==
    IF dist_to_npc(s) = 1 /\ s.npc_mood_estimate = "HOSTILE"
    THEN CASE s.agent_pos[1] < s.npc_pos[1] -> "LEFT"
           [] s.agent_pos[1] > s.npc_pos[1] -> "RIGHT"
           [] s.agent_pos[1] = s.npc_pos[1] /\ s.agent_pos[2] < s.npc_pos[2] -> "UP"
           [] OTHER -> "DOWN"
    ELSE IF dist_to_npc(s) = 1 /\ s.npc_mood_estimate = None
    THEN "INTERACT"
    ELSE CASE s.agent_pos[1] < s.goal_pos[1] -> "RIGHT"
           [] s.agent_pos[1] > s.goal_pos[1] -> "LEFT"
           [] s.agent_pos[1] = s.goal_pos[1] /\ s.agent_pos[2] < s.goal_pos[2] -> "DOWN"
           [] OTHER -> "UP"

\* lines 131-133: state = env.reset(); total_reward = 0; steps = 0
trial_reset ==
    /\ trial.pc = "for"
    /\ reset
    /\ trial' = [trial EXCEPT !.pc = "while", !.total_reward = 0, !.steps = 0]
    /\ UNCHANGED <<pc, monitor_vars, integration>>

\* lines 136-171: one pass of the while loop
trial_step ==
    /\ trial.pc = "while"
    /\ trial.steps < trial_step_limit
    /\ step(heuristic_action(state))
    /\ trial' = [trial EXCEPT
                    !.total_reward = @ + result'.value.reward,
                    !.steps = @ + 1,
                    !.pc = IF result'.value.done \/ trial.steps + 1 >= trial_step_limit
                           THEN "if" ELSE "while"]
    /\ UNCHANGED <<pc, monitor_vars, integration>>

\* lines 174-179: the trial's outcome; a success ends the test, a tenth
\* failure raises the AssertionError
trial_check ==
    /\ trial.pc = "if"
    /\ trial' = IF trial.total_reward > success_reward
                THEN [trial EXCEPT !.pc = "passed"]
                ELSE IF trial.number + 1 < trials
                THEN [trial EXCEPT !.pc = "for", !.number = @ + 1]
                ELSE [trial EXCEPT !.pc = "AssertionError", !.number = @ + 1]
    /\ UNCHANGED <<env_vars, pc, monitor_vars, integration>>

\* line 128: env = SimpleSocialGridWorld(seed=42)
InitHeuristic ==
    /\ size = default_size
    /\ npc_pos = default_npc_pos
    /\ goal_pos = default_goal_pos
    /\ mood_change_freq = default_mood_change_frequency
    /\ max_steps = default_max_steps
    /\ constructed
    /\ pc = "idle"
    /\ trial = [pc |-> "for", number |-> 0, total_reward |-> 0, steps |-> 0]
    /\ NoMonitor
    /\ integration = NoIntegration

NextHeuristic ==
    \/ trial_reset
    \/ trial_step
    \/ trial_check

SpecHeuristic == InitHeuristic /\ [][NextHeuristic]_vars

----------------------------------------------------------------------------
(* Floats of ArousalMonitor (src/src/utils/arousal.py).  A float is a      *)
(* record: an exact fraction num / den ("finite"), a finite double of the  *)
(* order of 1e200 ("huge"), +infinity ("inf") or NaN ("nan").  Fractions   *)
(* are exact, so a "finite" value can differ from the double the code      *)
(* forms in its last bits; "huge" values follow IEEE 754: the product of   *)
(* two of them is above the largest double, 1.8e308, and is +infinity.     *)
(* Every operand that is not an absolute value is positive or zero in the  *)
(* calls made here, and the cases below cover exactly those.               *)

RECURSIVE GCD(_, _)
GCD(a, b) == IF b = 0 THEN a ELSE GCD(b, a % b)

\* the fraction n / d (d # 0) in lowest terms, with a positive denominator
Rat(n, d) ==
    LET g == GCD(Abs(n), Abs(d))
        sign == IF d < 0 THEN -1 ELSE 1
    IN  [kind |-> "finite", num |-> sign * (n \div g), den |-> sign * (d \div g)]

Huge == [kind |-> "huge", num |-> 0, den |-> 1]

Inf == [kind |-> "inf", num |-> 0, den |-> 1]

NaN == [kind |-> "nan", num |-> 0, den |-> 1]

Zero == Rat(0, 1)

One == Rat(1, 1)

\* abs(x)
FAbs(x) == IF x.kind = "finite" THEN Rat(Abs(x.num), x.den) ELSE x

\* x * y for y >= 0 or x, y finite
FMul(x, y) ==
    CASE x.kind = "nan" \/ y.kind = "nan" -> NaN
      [] x.kind = "finite" /\ y.kind = "finite" -> Rat(x.num * y.num, x.den * y.den)
      [] x.kind = "inf" /\ y.kind = "finite" /\ y.num = 0 -> NaN
      [] y.kind = "inf" /\ x.kind = "finite" /\ x.num = 0 -> NaN
      [] x.kind = "inf" /\ y.kind = "finite" /\ y.num > 0 -> Inf
      [] y.kind = "inf" /\ x.kind = "finite" /\ x.num > 0 -> Inf
      [] x.kind \in {"inf", "huge"} /\ y.kind \in {"inf", "huge"} -> Inf
      [] x.kind = "huge" /\ y.kind = "finite" /\ y.num = 0 -> Zero
      [] y.kind = "huge" /\ x.kind = "finite" /\ x.num = 0 -> Zero
      [] x.kind = "huge" /\ y.kind = "finite" /\ y.num > 0 -> Huge
      [] y.kind = "huge" /\ x.kind = "finite" /\ x.num > 0 -> Huge

\* x + y for x, y finite or positive
FAdd(x, y) ==
    CASE x.kind = "nan" \/ y.kind = "nan" -> NaN
      [] x.kind = "finite" /\ y.kind = "finite" ->
            Rat(x.num * y.den + y.num * x.den, x.den * y.den)
      [] x.kind = "inf" \/ y.kind = "inf" -> Inf
      [] x.kind = "huge" \/ y.kind = "huge" -> Huge

\* x - y for a finite y
FSub(x, y) ==
    CASE x.kind = "nan" \/ y.kind = "nan" -> NaN
      [] x.kind = "finite" /\ y.kind = "finite" ->
            Rat(x.num * y.den - y.num * x.den, x.den * y.den)
      [] x.kind \in {"inf", "huge"} /\ y.kind = "finite" -> x

\* x / y for a finite y > 0, or a finite x and y = +infinity
FDiv(x, y) ==
    CASE x.kind = "nan" \/ y.kind = "nan" -> NaN
      [] x.kind = "finite" /\ y.kind = "finite" /\ y.num > 0 ->
            Rat(x.num * y.den, x.den * y.num)
      [] x.kind \in {"inf", "huge"} /\ y.kind = "finite" /\ y.num > 0 -> x
      [] x.kind = "finite" /\ y.kind = "inf" -> Zero

\* x > y for a finite y; a comparison with NaN is false
FGreater(x, y) ==
    CASE x.kind = "nan" \/ y.kind = "nan" -> FALSE
      [] x.kind = "finite" /\ y.kind = "finite" -> x.num * y.den > y.num * x.den
      [] x.kind \in {"inf", "huge"} /\ y.kind = "finite" -> TRUE

\* x ** 2 of Python floats raises OverflowError when the result is finite
\* and above the largest double
square_overflows(x) == x.kind = "huge"

\* x ** 2 when it raises nothing
FSquare(x) == FMul(x, x)

\* np.clip(x, 0.0, 1.0): NaN stays NaN
clip(x) ==
    CASE x.kind = "nan" -> NaN
      [] x.kind \in {"inf", "huge"} -> One
      [] x.kind = "finite" /\ x.num < 0 -> Zero
      [] x.kind = "finite" /\ x.num > x.den -> One
      [] OTHER -> x

----------------------------------------------------------------------------
(* ArousalMonitor: constructor, compute_arousal and reset *)

\* at most MaxComputeCalls calls of compute_arousal return on a monitor
MaxComputeCalls == 2

\* lines 62-66: defaults of the constructor's parameters
default_base_arousal == Rat(3, 10)

default_surprise_sensitivity == Rat(1, 2)

default_salience_sensitivity == Rat(3, 10)

default_stress_threshold == Rat(8, 10)

default_time_pressure_factor == Rat(2, 10)

\* a threshold above 1, under which an unpenalised product exceeds 1
high_stress_threshold == Rat(2, 1)

\* what a call that returns None, or raises, hands back
NoValue == [kind |-> "None", num |-> 0, den |-> 1]

\* the arguments compute_arousal is called with
prediction_errors == {Zero, One, Rat(-2, 1), Huge}

reward_magnitudes == {Zero, Rat(10, 1), Huge}

\* <<time_remaining, max_time>>
times == {<<One, One>>, <<Zero, One>>}

\* lines 131-154: the values compute_arousal forms; raised tells whether
\* excess**2 raised OverflowError (line 149)
arousal_components(prediction_error, reward_magnitude, time_remaining, max_time) ==
    LET surprise_boost == FAdd(One, FMul(FAbs(prediction_error), surprise_sens))
        salience_boost == FAdd(One, FMul(FAbs(reward_magnitude), salience_sens))
        time_fraction  == FDiv(time_remaining, max_time)
        time_pressure  == FAdd(One, FMul(FSub(One, time_fraction), time_sens))
        raw_arousal    == FMul(FMul(FMul(base, surprise_boost), salience_boost),
                               time_pressure)
        stressed       == FGreater(raw_arousal, stress_thresh)
        excess         == FDiv(FSub(raw_arousal, stress_thresh), stress_thresh)
        raised         == stressed /\ square_overflows(excess)
        stress_penalty == IF stressed /\ ~raised
                          THEN FDiv(One, FAdd(One, FSquare(excess)))
                          ELSE One
        arousal        == clip(FMul(raw_arousal, stress_penalty))
    IN  [raised |-> raised, surprise_boost |-> surprise_boost,
         salience_boost |-> salience_boost, stress_penalty |-> stress_penalty,
         arousal |-> arousal]

\* the list keeps its latest entry only
appended_replacing(history, value) == <<value>>

\* lines 157-159, 163: list.append
appended(history, value) == Append(history, value)

\* lines 99-165
compute_arousal(prediction_error, reward_magnitude, time_remaining, max_time) ==
    LET c == arousal_components(prediction_error, reward_magnitude,
                                time_remaining, max_time)
    IN  /\ compute_calls < MaxComputeCalls
        /\ IF c.raised
           THEN /\ monitor_result' = [op |-> "compute_arousal",
                                      raised |-> "OverflowError", value |-> NoValue]
                /\ UNCHANGED <<current_arousal, histories, compute_calls>>
           ELSE /\ surprise_component' = appended(surprise_component, c.surprise_boost)
                /\ salience_component' = appended(salience_component, c.salience_boost)
                /\ stress_component' = appended(stress_component, c.stress_penalty)
                /\ current_arousal' = c.arousal
                /\ arousal_history' = appended(arousal_history, c.arousal)
                /\ compute_calls' = compute_calls + 1
                /\ monitor_result' = [op |-> "compute_arousal", raised |-> None,
                                      value |-> c.arousal]
        /\ UNCHANGED monitor_config

\* reset() also empties the four histories
monitor_reset_clearing ==
    /\ current_arousal' = base
    /\ arousal_history' = <<>>
    /\ surprise_component' = <<>>
    /\ salience_component' = <<>>
    /\ stress_component' = <<>>
    /\ monitor_result' = [op |-> "reset", raised |-> None, value |-> NoValue]
    /\ UNCHANGED <<monitor_config, compute_calls>>

\* lines 229-231: ArousalMonitor.reset
monitor_reset ==
    /\ current_arousal' = base
    /\ monitor_result' = [op |-> "reset", raised |-> None, value |-> NoValue]
    /\ UNCHANGED <<monitor_config, histories, compute_calls>>

\* lines 86-97: ArousalMonitor.__init__
InitMonitor ==
    /\ base = default_base_arousal
    /\ surprise_sens = default_surprise_sensitivity
    /\ salience_sens = default_salience_sensitivity
    /\ stress_thresh \in {default_stress_threshold, high_stress_threshold}
    /\ time_sens = default_time_pressure_factor
    /\ current_arousal = base
    /\ arousal_history = <<>>
    /\ surprise_component = <<>>
    /\ salience_component = <<>>
    /\ stress_component = <<>>
    /\ monitor_result = [op |-> "init", raised |-> None, value |-> NoValue]
    /\ compute_calls = 0
    /\ NoEnvironment
    /\ integration = NoIntegration

call_compute_arousal ==
    /\ \E prediction_error \in prediction_errors, reward_magnitude \in reward_magnitudes,
          time \in times :
            compute_arousal(prediction_error, reward_magnitude, time[1], time[2])
    /\ UNCHANGED <<env_vars, pc, trial, integration>>

call_monitor_reset ==
    /\ monitor_reset
    /\ UNCHANGED <<env_vars, pc, trial, integration>>

NextMonitor ==
    \/ call_compute_arousal
    \/ call_monitor_reset

SpecMonitor == InitMonitor /\ [][NextMonitor]_vars

----------------------------------------------------------------------------
(* ArousalIntegrator: weighted_integration and gated_integration.  The     *)
(* softmax weights are doubles: np.exp overflows to +infinity above        *)
(* ln(1.8e308) = 709.78, and the sum exp(a) + exp(b) equals its larger     *)
(* term once the smaller one is below half a unit in its last place,       *)
(* which is certain from a gap of 38 between the exponents (exp(-38) <     *)
(* 2^-54) and certainly not the case up to a gap of 36 (exp(-36) > 2^-52). *)
(* A weight strictly between 0 and 1 is kept as its log-odds               *)
(* ("sigmoid"): the double nearest 1 / (1 + exp(-num / den)).              *)

\* arousal values 0.0, 0.1, ... up to MaxArousalTenths tenths
MaxArousalTenths == 10

arousal_levels == {Rat(i, 10) : i \in 0 .. MaxArousalTenths}

\* line 279: default temperature, and two sharper ones
temperatures == {One, Rat(1, 50), Rat(1, 1000)}

\* line 308: default threshold, a wider and a narrower one
thresholds == {Rat(2, 10), Rat(1, 2), Rat(1, 10)}

\* np.exp(x) is +infinity: x is above ln of the largest double
exp_overflows(x) == FGreater(x, Rat(70978, 100))

\* the exponent gap from which exp(a) + exp(b) is exp(a)
absorbing_gap == Rat(38, 1)

\* the exponent gap up to which exp(a) + exp(b) is above exp(a)
separating_gap == Rat(36, 1)

Sigmoid(d) == [kind |-> "sigmoid", num |-> d.num, den |-> d.den]

\* line 300: exp(own) / (exp(own) + exp(other)) for exponents own, other >= 0
softmax_weight(own, other) ==
    LET gap == FSub(own, other)
    IN  CASE exp_overflows(own) -> NaN
          [] ~exp_overflows(own) /\ exp_overflows(other) -> Zero
          [] ~exp_overflows(own) /\ ~exp_overflows(other) /\ gap = Zero -> Rat(1, 2)
          [] ~exp_overflows(own) /\ ~exp_overflows(other) /\ gap # Zero
                /\ ~FGreater(absorbing_gap, gap) -> One
          [] ~exp_overflows(own) /\ ~exp_overflows(other) /\ gap # Zero
                /\ ~FGreater(gap, separating_gap) -> Sigmoid(gap)

\* lines 296-302
weighted_integration(arousal_state, arousal_agent, temperature) ==
    LET state_exponent == FDiv(arousal_state, temperature)
        agent_exponent == FDiv(arousal_agent, temperature)
    IN  <<softmax_weight(state_exponent, agent_exponent),
          softmax_weight(agent_exponent, state_exponent)>>

\* the tie band includes a difference equal to the threshold
gated_integration_inclusive(arousal_state, arousal_agent, threshold) ==
    LET diff == FAbs(FSub(arousal_state, arousal_agent))
    IN  IF ~FGreater(diff, threshold) THEN <<Rat(1, 2), Rat(1, 2)>>
        ELSE IF FGreater(arousal_state, arousal_agent) THEN <<One, Zero>>
        ELSE <<Zero, One>>

\* lines 326-336
gated_integration(arousal_state, arousal_agent, threshold) ==
    LET diff == FAbs(FSub(arousal_state, arousal_agent))
    IN  IF FGreater(threshold, diff) THEN <<Rat(1, 2), Rat(1, 2)>>
        ELSE IF FGreater(arousal_state, arousal_agent) THEN <<One, Zero>>
        ELSE <<Zero, One>>

call_weighted_integration ==
    /\ \E arousal_state \in arousal_levels, arousal_agent \in arousal_levels,
          temperature \in temperatures :
            integration' = [op |-> "weighted_integration",
                            arousal_state |-> arousal_state,
                            arousal_agent |-> arousal_agent,
                            parameter |-> temperature,
                            weights |-> weighted_integration(arousal_state,
                                            arousal_agent, temperature)]
    /\ UNCHANGED <<env_vars, pc, trial, monitor_vars>>

call_gated_integration ==
    /\ \E arousal_state \in arousal_levels, arousal_agent \in arousal_levels,
          threshold \in thresholds :
            integration' = [op |-> "gated_integration",
                            arousal_state |-> arousal_state,
                            arousal_agent |-> arousal_agent,
                            parameter |-> threshold,
                            weights |-> gated_integration(arousal_state,
                                            arousal_agent, threshold)]
    /\ UNCHANGED <<env_vars, pc, trial, monitor_vars>>

\* the class has no state: only static methods
InitIntegrator ==
    /\ integration = [op |-> "none", arousal_state |-> Zero, arousal_agent |-> Zero,
                      parameter |-> One, weights |-> <<Zero, Zero>>]
    /\ NoEnvironment
    /\ NoMonitor

NextIntegrator ==
    \/ call_weighted_integration
    \/ call_gated_integration

SpecIntegrator == InitIntegrator /\ [][NextIntegrator]_vars

----------------------------------------------------------------------------
(* What the last call returned *)

ResetReturned == result.op = "reset" /\ result.raised = None

StepReturned == result.op = "step" /\ result.raised = None

Manhattan(p, q) == Abs(p[1] - q[1]) + Abs(p[2] - q[2])

InGrid(pos) == pos \in Cells(size)

Movement == {"UP", "DOWN", "LEFT", "RIGHT"}

\* the cell a movement action aims at, by the deltas UP=(0,-1), DOWN=(0,+1),
\* LEFT=(-1,0), RIGHT=(+1,0)
Target(pos, action) ==
    CASE action = "UP"    -> <<pos[1], pos[2] - 1>>
      [] action = "DOWN"  -> <<pos[1], pos[2] + 1>>
      [] action = "LEFT"  -> <<pos[1] - 1, pos[2]>>
      [] action = "RIGHT" -> <<pos[1] + 1, pos[2]>>

\* the returned transition is a movement action that ran into a wall
Collided(tr) == tr.action \in Movement /\ ~InGrid(Target(tr.state.agent_pos, tr.action))

\* a movement that neither collides nor touches the goal
NonGoalMove(tr) ==
    /\ tr.action \in Movement
    /\ ~Collided(tr)
    /\ tr.state.agent_pos # goal_pos
    /\ tr.next_state.agent_pos # goal_pos

\* the returned transition is an INTERACT from a cell at distance 1 of the NPC
AdjacentInteract(tr) ==
    tr.action = "INTERACT" /\ Manhattan(tr.state.agent_pos, npc_pos) = 1

----------------------------------------------------------------------------
(* C1: the GridState returned by reset(), whatever was drawn and whatever  *)
(* calls came before, has agent_pos different from goal_pos and from       *)
(* npc_pos.                                                                *)
C1_ResetAvoidsGoalAndNpc ==
    ResetReturned =>
        /\ result.value.agent_pos # goal_pos
        /\ result.value.agent_pos # npc_pos
        /\ result.value.agent_pos # result.value.goal_pos
        /\ result.value.agent_pos # result.value.npc_pos

\* a reset() that follows an episode which ended
C1_Witness ==
    /\ ResetReturned
    /\ episode_count >= 2
    /\ total_rewards # <<>>
    /\ goal_pos # npc_pos

(* C2: every reset() returns and installs a state with npc_mood_estimate   *)
(* unknown, interaction_count 0, steps 0 and npc_mood_actual equal to the  *)
(* environment's current mood, whatever the previous episode left.         *)
C2_ResetFreshState ==
    ResetReturned =>
        /\ state = result.value
        /\ state.npc_mood_estimate = None
        /\ state.interaction_count = 0
        /\ state.steps = 0
        /\ state.npc_mood_actual = current_mood

\* a reset() after an episode that ended, with the mood changed since
\* construction
C2_Witness ==
    /\ ResetReturned
    /\ episode_count >= 2
    /\ total_rewards # <<>>
    /\ current_mood # "NEUTRAL"

(* C3: while no reset() has been called, every step() raises, returns no   *)
(* transition and leaves state, episode counter, mood and reward history   *)
(* untouched; only reset() takes the environment out of that state.        *)
C3_StepBeforeResetFails ==
    [][ /\ (state = NoState /\ result'.op = "step") =>
              /\ result'.raised = "RuntimeError"
              /\ result'.value = NoState
              /\ UNCHANGED <<state, episode_count, current_mood, total_rewards>>
        /\ (state = NoState /\ state' # NoState) => result'.op = "reset"
        /\ (result'.op = "step" /\ result'.raised = None) => state # NoState
      ]_vars

\* step() was called twice on a fresh environment
C3_Witness ==
    /\ result.op = "step"
    /\ result.raised = "RuntimeError"
    /\ state = NoState
    /\ episode_count = 0
    /\ calls >= 2

(* C4: agent_pos lies inside the grid in every state reset() or step()     *)
(* installs or returns; a movement into a wall does not leave the grid.    *)
C4_AgentInsideGrid ==
    /\ state # NoState => InGrid(state.agent_pos)
    /\ ResetReturned => InGrid(result.value.agent_pos)
    /\ StepReturned => /\ InGrid(result.value.state.agent_pos)
                       /\ InGrid(result.value.next_state.agent_pos)

\* a movement action ran into a wall
C4_Witness ==
    /\ StepReturned
    /\ Collided(result.value)
    /\ result.value.next_state = state

(* C5: step() never changes goal_pos, npc_pos or npc_mood_actual, and the  *)
(* current mood changes only inside reset(); goal_pos and npc_pos are      *)
(* constant over the environment's lifetime.                               *)
C5_StepKeepsGoalNpcMood ==
    [][ /\ goal_pos' = goal_pos
        /\ npc_pos' = npc_pos
        /\ current_mood' # current_mood => result'.op = "reset"
        /\ (result'.op = "step" /\ result'.raised = None) =>
              /\ result'.value.state = state
              /\ result'.value.next_state = state'
              /\ state'.goal_pos = state.goal_pos
              /\ state'.npc_pos = state.npc_pos
              /\ state'.npc_mood_actual = state.npc_mood_actual
              /\ current_mood' = current_mood
        /\ state' # NoState =>
              /\ state'.goal_pos = goal_pos
              /\ state'.npc_pos = npc_pos
              /\ state'.npc_mood_actual = current_mood'
      ]_vars

\* a step in an episode whose mood is not the initial one, goal and NPC on
\* different cells
C5_Witness ==
    /\ StepReturned
    /\ goal_pos # npc_pos
    /\ state.npc_mood_actual # "NEUTRAL"
    /\ state.steps >= 2
    /\ state.agent_pos # result.value.state.agent_pos

(* C6: state_error and agent_error of every returned transition are >= 0   *)
(* and never both nonzero; agent_error is nonzero only for an adjacent     *)
(* INTERACT with a HOSTILE NPC, state_error only for a wall collision or a *)
(* non-adjacent INTERACT.                                                  *)
C6_ErrorsExclusive ==
    StepReturned =>
        LET tr == result.value IN
        /\ tr.info.state_error >= 0
        /\ tr.info.agent_error >= 0
        /\ ~(tr.info.state_error # 0 /\ tr.info.agent_error # 0)
        /\ tr.info.agent_error # 0 =>
              AdjacentInteract(tr) /\ tr.state.npc_mood_actual = "HOSTILE"
        /\ tr.info.state_error # 0 =>
              \/ Collided(tr)
              \/ tr.action = "INTERACT" /\ ~AdjacentInteract(tr)

\* an adjacent INTERACT with a non-hostile NPC: neither error is raised
C6_Witness ==
    /\ StepReturned
    /\ AdjacentInteract(result.value)
    /\ result.value.state.npc_mood_actual = "FRIENDLY"
    /\ result.value.info.agent_error = 0
    /\ result.value.info.state_error = 0

(* C7: the current mood changes exactly at the resets whose incremented    *)
(* episode_count is a multiple of mood_change_frequency, and at no other   *)
(* reset or step; the new mood differs from the one before, so after      *)
(* mood_change_frequency resets the mood is no longer the initial NEUTRAL. *)
C7_MoodChangesOnSchedule ==
    /\ [][ (current_mood' # current_mood) <=>
                /\ result'.op = "reset"
                /\ episode_count' = episode_count + 1
                /\ episode_count' % mood_change_freq = 0
          ]_vars
    /\ [](episode_count < mood_change_freq => current_mood = "NEUTRAL")
    /\ [](episode_count = mood_change_freq => current_mood # "NEUTRAL")

\* frequency 2: the first reset kept NEUTRAL, the second changed it
C7_Witness ==
    /\ ResetReturned
    /\ mood_change_freq = 2
    /\ episode_count = 2
    /\ current_mood # "NEUTRAL"

(* C8 as stated: an adjacent INTERACT with a HOSTILE NPC returns a total   *)
(* reward <= -5.1, agent_error 5.0, state_error 0 and a HOSTILE estimate.  *)
C8_Original ==
    (StepReturned /\ AdjacentInteract(result.value)
        /\ result.value.state.npc_mood_actual = "HOSTILE") =>
        /\ result.value.reward <= -51
        /\ result.value.info.agent_error = 50
        /\ result.value.info.state_error = 0
        /\ result.value.next_state.npc_mood_estimate = "HOSTILE"

(* C8 amended: an adjacent INTERACT with a HOSTILE NPC returns agent_error *)
(* 5.0, state_error 0 and a HOSTILE estimate; its reward is -5.1 when the  *)
(* agent does not stand on goal_pos and 4.9 when it does.                  *)
C8_HostileInteract ==
    (StepReturned /\ AdjacentInteract(result.value)
        /\ result.value.state.npc_mood_actual = "HOSTILE") =>
        /\ result.value.reward =
              IF result.value.state.agent_pos = goal_pos THEN 49 ELSE -51
        /\ result.value.info.agent_error = 50
        /\ result.value.info.state_error = 0
        /\ result.value.next_state.npc_mood_estimate = "HOSTILE"

\* a hostile interaction away from the goal
C8_Witness ==
    /\ StepReturned
    /\ AdjacentInteract(result.value)
    /\ result.value.state.npc_mood_actual = "HOSTILE"
    /\ result.value.state.agent_pos # goal_pos
    /\ result.value.reward = -51

(* C9: a movement action whose candidate cell lies outside the grid leaves *)
(* agent_pos, npc_mood_estimate and interaction_count unchanged and        *)
(* reports state_error 1.0 with agent_error 0.                             *)
C9_WallCollisionFrame ==
    (StepReturned /\ Collided(result.value)) =>
        LET tr == result.value IN
        /\ tr.next_state.agent_pos = tr.state.agent_pos
        /\ tr.next_state.npc_mood_estimate = tr.state.npc_mood_estimate
        /\ tr.next_state.interaction_count = tr.state.interaction_count
        /\ tr.info.state_error = 10
        /\ tr.info.agent_error = 0

\* a collision after the mood has been learnt
C9_Witness ==
    /\ StepReturned
    /\ Collided(result.value)
    /\ result.value.state.npc_mood_estimate # None
    /\ result.value.state.interaction_count >= 1

(* C10 as stated: the reward of a wall-colliding movement step is exactly  *)
(* 1.1 lower than the reward step() returns for a movement that neither    *)
(* collides nor reaches the goal.                                          *)
C10_Original ==
    (StepReturned /\ Collided(result.value)) =>
        \A a \in Movement :
            NonGoalMove(StepTransition(result.value.state, a)) =>
                result.value.reward =
                    StepTransition(result.value.state, a).reward - 11

(* C10 amended: the reward of a wall-colliding movement step from a cell   *)
(* other than goal_pos is -1.1, exactly 1.0 lower than the -0.1 step()     *)
(* returns for a movement that neither collides nor reaches the goal; a    *)
(* collision while standing on goal_pos returns 8.9, exactly 1.0 lower     *)
(* than the 9.9 of a non-colliding move from there.                        *)
C10_CollisionReward ==
    (StepReturned /\ Collided(result.value)) =>
        LET tr == result.value IN
        /\ tr.reward = IF tr.state.agent_pos = goal_pos THEN 89 ELSE -11
        /\ \A a \in Movement :
              LET plain == StepTransition(tr.state, a) IN
              /\ NonGoalMove(plain) =>
                    plain.reward = -1 /\ tr.reward = plain.reward - 10
              /\ (~Collided(plain) /\ tr.state.agent_pos = goal_pos) =>
                    plain.reward = 99 /\ tr.reward = plain.reward - 10

\* a collision from a cell that is not the goal, in an episode that goes on
C10_Witness ==
    /\ StepReturned
    /\ Collided(result.value)
    /\ result.value.state.agent_pos # goal_pos
    /\ ~result.value.done
    /\ result.value.reward = -11

----------------------------------------------------------------------------
\* the rewards, in tenths, of a step that gets no goal bonus: plain move,
\* hostile / friendly / neutral adjacent INTERACT, far INTERACT, collision
StepRewardsWithoutGoal == {-1, -51, 9, -6, -11}

(* C11: a returned step whose pre-move or post-move position is goal_pos   *)
(* has done = true and a reward that contains +10.0 on top of the reward   *)
(* of the step itself; a plain move onto the goal returns 9.9, above 5;    *)
(* a step whose pre-move and post-move positions both differ from goal_pos *)
(* never contains the +10.0.                                               *)
C11_GoalEndsEpisode ==
    StepReturned =>
        LET tr   == result.value
            pre  == tr.state.agent_pos
            post == tr.next_state.agent_pos
        IN  /\ (pre = goal_pos \/ post = goal_pos) =>
                  /\ tr.done
                  /\ tr.reward - 100 \in StepRewardsWithoutGoal
            /\ (tr.action \in Movement /\ pre # goal_pos /\ post = goal_pos) =>
                  tr.reward = 99 /\ tr.reward > 50
            /\ (pre # goal_pos /\ post # goal_pos) =>
                  tr.reward \in StepRewardsWithoutGoal

\* a plain move that ends on the goal: done, 9.9
C11_Witness ==
    /\ StepReturned
    /\ result.value.action \in Movement
    /\ result.value.state.agent_pos # goal_pos
    /\ result.value.next_state.agent_pos = goal_pos
    /\ result.value.done
    /\ result.value.reward = 99

(* C12: a returned step that brings the step counter to max_steps (or      *)
(* beyond) has done = true whatever else happened in it, so no episode     *)
(* passes its max_steps-th step without done having been signalled.        *)
C12_TimeoutEndsEpisode ==
    StepReturned =>
        LET tr == result.value
        IN  /\ tr.next_state.steps = tr.state.steps + 1
            /\ tr.next_state.steps >= max_steps => tr.done

\* the step that reaches max_steps away from the goal, with no hostile
\* encounter: done by timeout alone
C12_Witness ==
    /\ StepReturned
    /\ result.value.next_state.steps = max_steps
    /\ result.value.state.agent_pos # goal_pos
    /\ result.value.next_state.agent_pos # goal_pos
    /\ result.value.action # "INTERACT"
    /\ result.value.done

(* C14: with the constructor's defaults and the heuristic of               *)
(* test_optimal_policy_exists choosing every action, the test never runs   *)
(* out of its ten trials: whatever start positions reset() draws, one of   *)
(* the first ten episodes ends with done = true and a cumulative reward    *)
(* above 5 after at most 50 steps.                                         *)
C14_HeuristicReachesGoal ==
    /\ trial.pc # "AssertionError"
    /\ trial.pc = "passed" =>
          /\ trial.number < trials
          /\ StepReturned
          /\ result.value.done
          /\ trial.total_reward > success_reward
          /\ trial.steps <= trial_step_limit

\* a trial that passed after querying the NPC on its way: seven moves and
\* one INTERACT, 10.0 - 0.8
C14_Witness ==
    /\ trial.pc = "passed"
    /\ result.value.done
    /\ state.npc_mood_estimate = "NEUTRAL"
    /\ trial.steps = 8
    /\ trial.total_reward = 92

\* reset() was called and raised nothing, and its loop has a way out
C15_Original ==
    /\ result.op = "reset" => result.raised = None
    /\ pc = "sampling" => \E p \in Cells(size) : p # goal_pos /\ p # npc_pos

(* C15 amended: for every stored configuration whose frequency is not 0,   *)
(* reset() raises nothing from any state, and when the grid has a cell     *)
(* that is neither goal_pos nor npc_pos its sampling loop ends under fair  *)
(* draws and reset() returns a fresh state; with a frequency of 0 every    *)
(* reset() raises ZeroDivisionError, and with no such cell (a 1 x 1 grid   *)
(* whose cell holds the goal or the NPC) the loop never ends.              *)
C15_ResetReturns ==
    /\ [](result.op = "reset" => (result.raised = None <=> mood_change_freq # 0))
    /\ [](mood_change_freq = 0 => pc = "idle" /\ state = NoState)
    /\ (pc = "sampling" /\ \E p \in Cells(size) : p # goal_pos /\ p # npc_pos)
          ~> (pc = "idle" /\ ResetReturned /\ result.value = state
                /\ state.steps = 0)
    /\ [][(pc = "sampling" /\ \A p \in Cells(size) : p = goal_pos \/ p = npc_pos)
            => pc' = "sampling"]_vars

\* a second reset() that returned, called after a step of the first episode
C15_Witness ==
    /\ pc = "idle"
    /\ ResetReturned
    /\ episode_count = 2
    /\ calls = 3
    /\ state.steps = 0

----------------------------------------------------------------------------
MonitorReturned(op) == monitor_result.op = op /\ monitor_result.raised = None

\* x is a number of the interval [0, 1]
InUnitInterval(x) == x.kind = "finite" /\ 0 <= x.num /\ x.num <= x.den

(* C16: every value compute_arousal returns lies in [0, 1], and so does    *)
(* every entry of arousal_history.                                         *)
C16_Original ==
    /\ MonitorReturned("compute_arousal") => InUnitInterval(monitor_result.value)
    /\ \A i \in 1 .. Len(arousal_history) : InUnitInterval(arousal_history[i])

\* h1 is h0 with entries added at its end
Extends(h1, h0) == Len(h1) >= Len(h0) /\ SubSeq(h1, 1, Len(h0)) = h0

C18_Original ==
    MonitorReturned("reset") =>
        /\ arousal_history = <<>>
        /\ surprise_component = <<>>
        /\ salience_component = <<>>
        /\ stress_component = <<>>

(* C18 amended: the four histories are empty at construction and only      *)
(* ever grow at their end; no operation empties them, reset() included:    *)
(* right after a reset() that follows n returned compute_arousal calls     *)
(* each of them still has its n entries.                                   *)
C18_HistoriesNeverEmptied ==
    /\ [](monitor_result.op = "init" =>
            \A h \in {arousal_history, surprise_component, salience_component,
                       stress_component} : h = <<>>)
    /\ [][\A i \in 1 .. 4 : Extends(histories'[i], histories[i])]_vars
    /\ [](MonitorReturned("reset") =>
            \A i \in 1 .. 4 : Len(histories[i]) = compute_calls)

\* reset() returned and the histories hold the entries of two calls
C18_Witness ==
    /\ MonitorReturned("reset")
    /\ compute_calls = 2
    /\ \A i \in 1 .. 4 : Len(histories[i]) = 2

----------------------------------------------------------------------------
\* the two weights returned by the last call of op
Weights == integration.weights

\* the inputs of the last call, in tenths (arousals) and as a fraction
StateTenths == integration.arousal_state.num * (10 \div integration.arousal_state.den)

AgentTenths == integration.arousal_agent.num * (10 \div integration.arousal_agent.den)

\* |a_state - a_agent| < threshold, on the tenths
BelowThreshold ==
    Abs(StateTenths - AgentTenths) * integration.parameter.den
        < 10 * integration.parameter.num

(* C19: gated_integration returns (0.5, 0.5) when |a_state - a_agent| is   *)
(* below the threshold, otherwise (1, 0) when a_state > a_agent and (0, 1) *)
(* when it is not; equal arousals give (0.5, 0.5) under every threshold;   *)
(* the two weights always sum to 1.                                        *)
C19_GatedIntegration ==
    integration.op = "gated_integration" =>
        /\ BelowThreshold => Weights = <<Rat(1, 2), Rat(1, 2)>>
        /\ (~BelowThreshold /\ StateTenths > AgentTenths) => Weights = <<One, Zero>>
        /\ (~BelowThreshold /\ StateTenths <= AgentTenths) => Weights = <<Zero, One>>
        /\ StateTenths = AgentTenths => Weights = <<Rat(1, 2), Rat(1, 2)>>
        /\ Weights[1].kind = "finite" /\ Weights[2].kind = "finite"
        /\ Weights[1].num * Weights[2].den + Weights[2].num * Weights[1].den
              = Weights[1].den * Weights[2].den

\* a difference equal to the threshold: the state domain wins outright
C19_Witness ==
    /\ integration.op = "gated_integration"
    /\ StateTenths = 5 /\ AgentTenths = 3
    /\ integration.parameter = Rat(2, 10)
    /\ Weights = <<One, Zero>>

\* w is a double strictly between 0 and 1
StrictlyInside(w) ==
    \/ w.kind = "sigmoid"
    \/ w.kind = "finite" /\ 0 < w.num /\ w.num < w.den

\* the sum of the two doubles is 1.0: halves, a weight and its complement
\* (up to rounding), or 1.0 and a weight below half a unit in its last place
SumIsOne(w) ==
    \/ w[1].kind = "finite" /\ w[2].kind = "finite"
          /\ w[1].num * w[2].den + w[2].num * w[1].den = w[1].den * w[2].den
    \/ w[1].kind = "sigmoid" /\ w[2].kind = "sigmoid"
          /\ w[1].num = -w[2].num /\ w[1].den = w[2].den
    \/ w[1] = One /\ w[2].kind = "sigmoid" /\ w[2].num <= -38 * w[2].den
    \/ w[2] = One /\ w[1].kind = "sigmoid" /\ w[1].num <= -38 * w[1].den

(* C20: for finite arousals and every temperature above 0 the weights of   *)
(* weighted_integration sum to 1.0 and are each strictly between 0 and 1.  *)
C20_Original ==
    integration.op = "weighted_integration" =>
        /\ SumIsOne(Weights)
        /\ StrictlyInside(Weights[1])
        /\ StrictlyInside(Weights[2])

----------------------------------------------------------------------------
\* the terms of the reward rules that apply in the returned transition tr,
\* read off its state and action, in tenths
InteractTerm(tr) ==
    IF tr.action # "INTERACT" THEN 0
    ELSE IF Manhattan(tr.state.agent_pos, npc_pos) # 1 THEN -5
    ELSE CASE tr.state.npc_mood_actual = "HOSTILE"  -> -50
           [] tr.state.npc_mood_actual = "FRIENDLY" -> 10
           [] tr.state.npc_mood_actual = "NEUTRAL"  -> 0

CollisionTerm(tr) == IF Collided(tr) THEN -10 ELSE 0

OnGoal(tr) == tr.state.agent_pos = goal_pos \/ tr.next_state.agent_pos = goal_pos

GoalTerm(tr) == IF OnGoal(tr) THEN 100 ELSE 0

RewardIsSumOfRules(tr) ==
    tr.reward = -1 + InteractTerm(tr) + CollisionTerm(tr) + GoalTerm(tr)

\* the reward is the sum of the rules that apply, and every step away from
\* the goal has a negative reward
C21_Original ==
    StepReturned =>
        /\ RewardIsSumOfRules(result.value)
        /\ ~OnGoal(result.value) => result.value.reward < 0

(* C21 amended: the reward of every returned step is -0.1 plus the terms   *)
(* of the rules that apply (-5.0 / +1.0 / 0 for an adjacent INTERACT with  *)
(* a HOSTILE / FRIENDLY / NEUTRAL NPC, -0.5 for a non-adjacent INTERACT,   *)
(* -1.0 for a wall collision, +10.0 for the goal) and nothing else; a step *)
(* away from the goal has a negative reward unless it is an adjacent       *)
(* INTERACT with a FRIENDLY NPC, whose reward is +0.9.                     *)
C21_RewardDecomposition ==
    StepReturned =>
        LET tr == result.value
            friendly == AdjacentInteract(tr) /\ tr.state.npc_mood_actual = "FRIENDLY"
        IN  /\ RewardIsSumOfRules(tr)
            /\ (~OnGoal(tr) /\ ~friendly) => tr.reward < 0
            /\ (~OnGoal(tr) /\ friendly) => tr.reward = 9

\* an adjacent INTERACT with a FRIENDLY NPC away from the goal: +0.9
C21_Witness ==
    /\ StepReturned
    /\ AdjacentInteract(result.value)
    /\ result.value.state.npc_mood_actual = "FRIENDLY"
    /\ ~OnGoal(result.value)
    /\ result.value.reward = 9

----------------------------------------------------------------------------
----------------------------------------------------------------------------
\* the returned transition is an INTERACT from a cell that is not at
\* distance 1 of the NPC
FarInteract(tr) ==
    tr.action = "INTERACT" /\ Manhattan(tr.state.agent_pos, npc_pos) # 1

(* C23: an INTERACT from a cell that is not at Manhattan distance exactly  *)
(* 1 from the NPC, the NPC's own cell included, leaves agent_pos,          *)
(* npc_mood_estimate and interaction_count as they were, reports           *)
(* state_error 0.5 and agent_error 0, and returns -0.6 when the agent is   *)
(* not on the goal.                                                        *)
C23_FarInteractFrame ==
    (StepReturned /\ FarInteract(result.value)) =>
        LET tr == result.value
        IN  /\ tr.next_state.agent_pos = tr.state.agent_pos
            /\ tr.next_state.npc_mood_estimate = tr.state.npc_mood_estimate
            /\ tr.next_state.interaction_count = tr.state.interaction_count
            /\ tr.info.state_error = 5
            /\ tr.info.agent_error = 0
            /\ tr.state.agent_pos # goal_pos => tr.reward = -6

\* an INTERACT made while standing on the NPC's cell
C23_Witness ==
    /\ StepReturned
    /\ FarInteract(result.value)
    /\ result.value.state.agent_pos = npc_pos
    /\ result.value.state.agent_pos # goal_pos
    /\ result.value.next_state.npc_mood_estimate = None
    /\ result.value.reward = -6

----------------------------------------------------------------------------
(* C24: a step() that returns replaces the environment's state by the      *)
(* returned next_state and returns as transition.state the state held      *)
(* before the call; total_rewards gains exactly one entry, the step's      *)
(* reward, when the step returns done = true, and is left as it is by a    *)
(* step with done = false and by reset().                                  *)
C24_StepBookkeeping ==
    /\ [][(result'.op = "step" /\ result'.raised = None /\ calls' # calls) =>
            /\ state' = result'.value.next_state
            /\ result'.value.state = state
            /\ result'.value.done =>
                  total_rewards' = total_rewards \o <<result'.value.reward>>
            /\ ~result'.value.done => total_rewards' = total_rewards]_vars
    /\ [][(result'.op = "reset" /\ calls' # calls) =>
            total_rewards' = total_rewards]_vars

\* a step that went on after an earlier one had ended an episode: one
\* entry recorded, the state replaced
C24_Witness ==
    /\ StepReturned
    /\ ~result.value.done
    /\ Len(total_rewards) = 1
    /\ state = result.value.next_state
    /\ state # result.value.state

----------------------------------------------------------------------------
(* C25: in every state the environment holds, npc_mood_estimate is either  *)
(* unknown or the actual mood, and it is known exactly when                *)
(* interaction_count is at least 1; no step() turns a known estimate back  *)
(* into unknown, only reset() does.                                        *)
C25_EstimateInvariant ==
    /\ [](state # NoState =>
            /\ state.npc_mood_estimate \in {None, state.npc_mood_actual}
            /\ state.npc_mood_actual = current_mood
            /\ state.npc_mood_estimate # None <=> state.interaction_count >= 1)
    /\ [][(state # NoState /\ state.npc_mood_estimate # None /\ result'.op = "step")
            => state'.npc_mood_estimate = state.npc_mood_estimate]_vars
    /\ [][(result'.op = "reset" /\ calls' # calls) =>
            state'.npc_mood_estimate = None]_vars

\* a movement step made with the estimate already known: it stays known
C25_Witness ==
    /\ StepReturned
    /\ result.value.action \in Movement
    /\ result.value.state.npc_mood_estimate # None
    /\ state.npc_mood_estimate = state.npc_mood_actual
    /\ state.interaction_count = 1

----------------------------------------------------------------------------
\* the three reasons for done, read off the returned transition
GoalReason(tr) == OnGoal(tr)

TimeoutReason(tr) == tr.next_state.steps >= max_steps

CutoffReason(tr) ==
    /\ AdjacentInteract(tr)
    /\ tr.state.npc_mood_actual = "HOSTILE"
    /\ tr.next_state.interaction_count >= 3

(* C26: step() returns done = true only when the pre- or post-move         *)
(* position is goal_pos, or the incremented step counter is at least       *)
(* max_steps, or an adjacent INTERACT with a HOSTILE NPC brought           *)
(* interaction_count to 3 or more; every step raises the step counter by   *)
(* exactly 1, and with a caller that resets after done the counter never   *)
(* exceeds max_steps.                                                      *)
C26_DoneReasons ==
    /\ [](StepReturned =>
            (result.value.done <=>
                \/ GoalReason(result.value)
                \/ TimeoutReason(result.value)
                \/ CutoffReason(result.value)))
    /\ [][(state # NoState /\ result'.op = "step" /\ calls' # calls) =>
            state'.steps = state.steps + 1]_vars
    /\ [](state # NoState => state.steps <= max_steps)

\* the step limit is the only reason: the counter stands at max_steps
C26_Witness ==
    /\ StepReturned
    /\ result.value.done
    /\ TimeoutReason(result.value)
    /\ ~GoalReason(result.value)
    /\ ~CutoffReason(result.value)
    /\ state.steps = max_steps

====
